---- MODULE Spec2Model ----
(***************************************************************************)
(* State-machine model of the MCBE news plugin (src/main.py).              *)
(*                                                                         *)
(* One asyncio event loop runs the plugin: every coroutine runs without    *)
(* interruption from one `await` to the next, so each action below is the  *)
(* code between two suspension points.  The suspension points of a check   *)
(* cycle are the feed fetch (client.get), the summarisation call           *)
(* (llm_generate) and each delivery (send_message).                        *)
(***************************************************************************)
EXTENDS Naturals, Sequences, FiniteSets, TLC

(* ------------------------------ bounds --------------------------------- *)

\* Articles the upstream site publishes during a run; ids are 1..MaxId.
MaxId == 2

\* Articles on one page of a feed listing (the server's per_page).
MaxPage == 2

\* Process restarts of the deployment.
MaxRestarts == 1

\* Entry slots of the registry dict before an insert compacts it.
DictUsable == 2

\* Register/unregister commands handled while check cycles deliver.
MaxCommands == 2

\* Register/unregister commands handled in a deployment.
MaxRegistryCommands == 4

\* Images with sources of their own in the middle of an article body.
MaxBodyImages == 12

\* Other nodes before them, and after them.
MaxLead == 2
MaxTrail == 1

\* _extract_content_with_images: max_images
max_images == 10

\* _summarize_article: the characters of the text quoted by the fallback
FallbackChars == 200

\* The extracted text of article id has id * TextUnit characters.
TextUnit == 150

Ids == 1..MaxId

\* The two feeds, by the version_type passed to _fetch_articles.
Feeds == {"Beta", "Release"}

\* The coroutines that can be inside _check_updates at the same time: the
\* scheduler's job (one instance at a time) and a /mcbe_check command.
Tasks == {"sched", "manual"}

VARIABLES
    upstream,           \* feed -> the page the site currently lists, newest first
    seen_article_ids,   \* self.seen_article_ids
    seen_file,          \* data/mcbe_news/seen_articles.json
    is_first_run,       \* self.is_first_run
    registered_groups,  \* self.registered_groups: the dict's entry slots, in insertion order
    config,             \* self.config
    task,               \* task -> control state and locals of its _check_updates call
    groups_file,        \* data/mcbe_news/registered_groups.json
    boot,               \* restarts so far
    ncmd,               \* register/unregister commands handled so far
    calls,              \* history: _check_updates calls of this process (0, 1, 2 = more)
    chk,                \* history: the _fetch_articles call the latest step completed
    cyc,                \* history: per task, what its check cycle in progress did
    fin,                \* history: the check cycle the latest step ended
    idem,               \* history: progress of two clean cycles in succession
    loaded,             \* history: what __init__ found of the seen-ids document
    told,               \* history: ids returned as new by the feed checks of this process
    cmd,                \* history: the register/unregister command the latest step handled
    soup,               \* the parsed body handed to _extract_content_with_images: its nodes
    components,         \* what _extract_content_with_images returned for it
    msg                 \* history: the message the latest step's _create_article_message built

vars == <<upstream, seen_article_ids, seen_file, is_first_run, registered_groups,
          config, task, groups_file, boot, ncmd, calls, chk, cyc, fin, idem, loaded, told, cmd, soup, components, msg>>

(* ------------------------------ helpers -------------------------------- *)

Range(s) == {s[i] : i \in 1..Len(s)}

Max(S) == IF S = {} THEN 0 ELSE CHOOSE x \in S : \A y \in S : y <= x

Other(t) == CHOOSE u \in Tasks : u # t

(* --------------------------- Seen-Set store ---------------------------- *)

\* The ids of a set as the JSON list json.dump writes (one fixed order).
RECURSIVE SetToList(_)
SetToList(S) ==
    IF S = {} THEN <<>>
    ELSE LET m == Max(S) IN Append(SetToList(S \ {m}), m)

\* The seen-ids document: absent, unreadable, or {"seen_ids": [...]}.
NoFile == [st |-> "absent", seen_ids |-> <<>>]
BadFile == [st |-> "corrupt", seen_ids |-> <<>>]

\* How one _save_seen_articles call can end: the write succeeds, open() raises
\* (nothing is touched), or the write raises after open(..., 'w') truncated
\* the file.  Either exception is logged and swallowed.
SaveOutcomes == {"ok", "open_fail", "write_fail"}

\* _save_seen_articles: the document after a save of `ids` ending in `outcome`.
save_seen_articles(file, ids, outcome) ==
    CASE outcome = "ok" -> [st |-> "ok", seen_ids |-> SetToList(ids)]
      [] outcome = "open_fail" -> file
      [] OTHER -> BadFile

\* _load_seen_articles: set(data.get('seen_ids', [])), or set() when the file
\* is absent or reading it raises.
load_seen_articles(file) ==
    IF file.st = "ok" THEN Range(file.seen_ids) ELSE {}

\* __init__: is_first_run = not seen_articles_file.exists()
first_run_at_start(file) == file.st = "absent"

(* ----------------------------- feed check ------------------------------ *)

\* A marking loop that replaces the set by the page's ids.
MarkReplaces(page, seen) == Range(page)

\* for article in data.articles: self.seen_article_ids.add(article.id)
RECURSIVE MarkAllSeen(_, _)
MarkAllSeen(page, seen) ==
    IF page = <<>> THEN seen
    ELSE MarkAllSeen(Tail(page), seen \cup {Head(page)})

\* A first-run branch that marks only the article it returns.
FirstRunMarksNewest(page, seen, feed) ==
    [seen |-> IF page # <<>> THEN seen \cup {page[1]} ELSE seen,
     new  |-> IF page # <<>> THEN << <<page[1], feed>> >> ELSE <<>>,
     save |-> TRUE]

\* The first-run branch of _fetch_articles: the whole page is marked seen,
\* only data.articles[0] is returned, and the set is saved unconditionally.
FirstRunCheck(page, seen, feed) ==
    [seen |-> MarkAllSeen(page, seen),
     new  |-> IF page # <<>> THEN << <<page[1], feed>> >> ELSE <<>>,
     save |-> TRUE]

\* A normal-mode loop without the membership test.
RECURSIVE NormalLoopNoTest(_, _, _, _)
NormalLoopNoTest(page, seen, new, feed) ==
    IF page = <<>> THEN [seen |-> seen, new |-> new]
    ELSE NormalLoopNoTest(Tail(page), seen \cup {Head(page)},
                          Append(new, <<Head(page), feed>>), feed)

\* A normal-mode loop that tests membership but leaves the add for later.
RECURSIVE NormalLoopTestOnly(_, _, _, _)
NormalLoopTestOnly(page, seen, new, feed) ==
    IF page = <<>> THEN [seen |-> seen, new |-> new]
    ELSE IF Head(page) \notin seen
         THEN NormalLoopTestOnly(Tail(page), seen,
                                 Append(new, <<Head(page), feed>>), feed)
         ELSE NormalLoopTestOnly(Tail(page), seen, new, feed)

\* The normal-mode loop of _fetch_articles over data.articles, in page order:
\* an id not in the set is appended to new_articles and added to the set.
RECURSIVE NormalLoop(_, _, _, _)
NormalLoop(page, seen, new, feed) ==
    IF page = <<>> THEN [seen |-> seen, new |-> new]
    ELSE IF Head(page) \notin seen
         THEN NormalLoop(Tail(page), seen \cup {Head(page)},
                         Append(new, <<Head(page), feed>>), feed)
         ELSE NormalLoop(Tail(page), seen, new, feed)

\* A normal branch that returns the new articles without marking them seen.
NormalCheckNoMark(page, seen, feed) ==
    [seen |-> seen, new |-> NormalLoop(page, seen, <<>>, feed).new,
     save |-> NormalLoop(page, seen, <<>>, feed).new # <<>>]

\* A normal branch that saves whether or not it found anything.
NormalCheckAlwaysSaves(page, seen, feed) ==
    [seen |-> NormalLoop(page, seen, <<>>, feed).seen,
     new |-> NormalLoop(page, seen, <<>>, feed).new, save |-> TRUE]

\* The normal branch of _fetch_articles: the loop, then a save if new_articles.
NormalCheck(page, seen, feed) ==
    LET r == NormalLoop(page, seen, <<>>, feed) IN
    [seen |-> r.seen, new |-> r.new, save |-> r.new # <<>>]

\* The except branch of _fetch_articles: the request, raise_for_status or
\* model_validate raised before anything was touched; returns [].
FailedCheck(seen) == [seen |-> seen, new |-> <<>>, save |-> FALSE]

\* _fetch_articles without raise_for_status and validation: whatever came
\* back is processed as a page.
fetch_articles_unchecked(ok, first, page, seen, feed) ==
    IF first THEN FirstRunCheck(page, seen, feed)
    ELSE NormalCheck(page, seen, feed)

\* _fetch_articles once the response is in: what it returns and does to the set.
fetch_articles(ok, first, page, seen, feed) ==
    IF ~ok THEN FailedCheck(seen)
    ELSE IF first THEN FirstRunCheck(page, seen, feed)
    ELSE NormalCheck(page, seen, feed)

(* ------------------------- Destination registry ------------------------ *)

\* A calling context (AstrMessageEvent): its unified_msg_origin, as the parts
\* between ':' separators, and the group_id attribute when the event has one.
Contexts ==
    { [umo |-> <<"qq", "group", "7">>,  has_gid |-> FALSE, gid |-> ""],
      [umo |-> <<"tg", "group", "7">>,  has_gid |-> FALSE, gid |-> ""],
      [umo |-> <<"qq", "friend", "9">>, has_gid |-> TRUE,  gid |-> "9"] }

\* 'group' in unified_msg_origin
ContainsGroup(umo) == \E i \in 1..Len(umo) : umo[i] = "group"

\* The key mcbe_register derives for a context: str(event.group_id) when the
\* event has that attribute, else parts[2] of an origin that contains 'group'
\* and has at least three parts, else the origin itself.
group_id_of(ctx) ==
    IF ctx.has_gid THEN <<ctx.gid>>
    ELSE IF ContainsGroup(ctx.umo) /\ Len(ctx.umo) >= 3 THEN <<ctx.umo[3]>>
    ELSE ctx.umo

\* self.registered_groups is a dict.  It is modelled as CPython keeps it: an
\* array of entry slots in insertion order, where a deleted entry leaves a dead
\* slot behind until an insert that finds the array full rebuilds it.
Dead == [k |-> <<>>, v |-> <<>>]

LiveSlots(d) == {i \in 1..Len(d) : d[i] # Dead}

\* len(d), which is also the truth value of `if self.registered_groups:`
dict_len(d) == Cardinality(LiveSlots(d))

dict_values(d) == {d[i].v : i \in LiveSlots(d)}

dict_keys(d) == {d[i].k : i \in LiveSlots(d)}

Compact(d) == SelectSeq(d, LAMBDA e : e # Dead)

\* d[k] = v
dict_set(d, k, v) ==
    IF \E i \in LiveSlots(d) : d[i].k = k
    THEN LET i == CHOOSE j \in LiveSlots(d) : d[j].k = k
         IN [d EXCEPT ![i] = [k |-> k, v |-> v]]
    ELSE IF Len(d) >= DictUsable
         THEN Append(Compact(d), [k |-> k, v |-> v])
         ELSE Append(d, [k |-> k, v |-> v])

\* An unregister that takes the first entry of the registry, whatever its
\* value.
first_entry(d, origin) ==
    IF LiveSlots(d) # {} THEN CHOOSE i \in LiveSlots(d) : \A j \in LiveSlots(d) : i <= j
    ELSE 0

\* mcbe_unregister's loop over list(d.items()): the first entry whose value is
\* `origin` is deleted; 0 when there is none.
first_with_value(d, origin) ==
    IF \E i \in LiveSlots(d) : d[i].v = origin
    THEN CHOOSE i \in LiveSlots(d) :
            d[i].v = origin /\ \A j \in LiveSlots(d) : d[j].v = origin => i <= j
    ELSE 0

\* del d[group_id]
dict_del(d, i) == [d EXCEPT ![i] = Dead]

\* The registered-destinations document.
NoGroupsFile == [st |-> "absent", doc |-> <<>>]

\* _save_registered_groups, with the outcomes of a write as for the seen ids.
save_registered_groups(file, d, outcome) ==
    CASE outcome = "ok" -> [st |-> "ok", doc |-> Compact(d)]
      [] outcome = "open_fail" -> file
      [] OTHER -> [st |-> "corrupt", doc |-> <<>>]

\* _load_registered_groups
load_registered_groups(file) == IF file.st = "ok" THEN file.doc ELSE <<>>

(* ------------------------- legacy group-id list ------------------------ *)

\* config['group_ids'] as the fields str.split(',') yields.
GroupIdStrings ==
    { <<"">>, <<" ">>, <<" ", "">>, <<"g1">>, <<" g1 ", "", "g2">> }

\* str.strip() on one field
Strip(f) ==
    CASE f = " " -> ""
      [] f = " g1 " -> "g1"
      [] OTHER -> f

\* not group_ids_str or not group_ids_str.strip()
IsBlank(str) == Len(str) = 1 /\ Strip(str[1]) = ""

\* [gid.strip() for gid in group_ids_str.split(',') if gid.strip()]
RECURSIVE parse_group_ids(_)
parse_group_ids(str) ==
    IF str = <<>> THEN <<>>
    ELSE IF Strip(Head(str)) # ""
         THEN <<Strip(Head(str))>> \o parse_group_ids(Tail(str))
         ELSE parse_group_ids(Tail(str))

\* _send_to_groups: unified_msg_origin = f"group_{group_id}"
legacy_origin(gid) == <<"group_", gid>>

(* --------------------------- image extraction -------------------------- *)

\* An image source: where it points (o) and which file (p).  o = "rel" is a
\* root-relative source ('/...'), "base" an absolute URL on feedback_base_url,
\* "cdn" an absolute URL elsewhere; NoSrc is a missing or empty src attribute.
NoSrc == [o |-> "none", p |-> 0]

\* src.startswith('/')
is_root_relative(src) == src.o = "rel"

\* self.feedback_base_url + src
on_base(src) == [o |-> "base", p |-> src.p]

\* A node of the body: an <img>, or a <figure> with the <img> tags inside it.
ImgNode(src) == [name |-> "img", src |-> src, imgs |-> <<>>]
FigureNode(srcs) == [name |-> "figure", src |-> NoSrc, imgs |-> srcs]

\* soup.find_all(['figure', 'img']): every figure and every img in document
\* order, so a figure is followed by the imgs inside it.  An element is its
\* tag name with, for an img, its src and, for a figure, the src of
\* element.find('img') (has_img FALSE: there is none).
RECURSIVE find_all(_)
find_all(nodes) ==
    IF nodes = <<>> THEN <<>>
    ELSE LET n == Head(nodes) IN
         IF n.name = "img"
         THEN <<[name |-> "img", has_img |-> TRUE, src |-> n.src]>>
                  \o find_all(Tail(nodes))
         ELSE <<[name |-> "figure", has_img |-> n.imgs # <<>>,
                 src |-> IF n.imgs # <<>> THEN n.imgs[1] ELSE NoSrc]>>
                  \o [i \in 1..Len(n.imgs) |->
                         [name |-> "img", has_img |-> TRUE, src |-> n.imgs[i]]]
                  \o find_all(Tail(nodes))

\* Comp.Image.fromURL(src) followed by Comp.Plain("\n")
ImageComps(src) == <<[kind |-> "image", url |-> src], [kind |-> "plain", url |-> NoSrc]>>

\* One pass of the loop body of _extract_content_with_images over element e:
\* a source that is not empty and not in processed_imgs is, while fewer than
\* max_images were emitted, rewritten if it is root-relative, emitted, counted
\* and added to processed_imgs.
extract_element(e, st) ==
    IF /\ e.has_img
       /\ st.image_count < max_images
       /\ e.src # NoSrc
       /\ e.src \notin st.processed_imgs
    THEN LET src == IF is_root_relative(e.src) THEN on_base(e.src) ELSE e.src IN
         [components |-> st.components \o ImageComps(src),
          image_count |-> st.image_count + 1,
          processed_imgs |-> st.processed_imgs \cup {src}]
    ELSE st

RECURSIVE extract_loop(_, _)
extract_loop(elements, st) ==
    IF elements = <<>> THEN st
    ELSE extract_loop(Tail(elements), extract_element(Head(elements), st))

\* _extract_content_with_images(soup)
extract_content_with_images(nodes) ==
    extract_loop(find_all(nodes),
                 [components |-> <<>>, image_count |-> 0, processed_imgs |-> {}]).components

\* Nothing extracted yet.
NotExtracted == [done |-> FALSE, chain |-> <<>>]

(* ------------------------------- rendering ----------------------------- *)

\* article.body of the article with this id, parsed: article 1 has no image,
\* every other one a figure and an img.
ArticleBody(id) ==
    IF id = 1 THEN <<>>
    ELSE <<FigureNode(<<[o |-> "cdn", p |-> id]>>), ImgNode([o |-> "cdn", p |-> 0])>>

\* soup.get_text(...) of it: the characters are numbered, the text of
\* article 1 is shorter than the fallback's quotation, the others are longer.
ArticleText(id) == [i \in 1..(id * TextUnit) |-> i]

\* article_text[:200]
Truncate(text, n) == SubSeq(text, 1, IF Len(text) < n THEN Len(text) ELSE n)

\* A summary step whose fallback quotes the whole text.
summarize_article_untruncated(llm_ok, text) ==
    IF llm_ok THEN [kind |-> "llm", quoted |-> <<>>]
    ELSE [kind |-> "fallback", quoted |-> text]

\* _summarize_article: the provider's completion text, or, when llm_generate
\* or reading its response raised, the note with the first FallbackChars
\* characters of the text.
summarize_article(llm_ok, text) ==
    IF llm_ok THEN [kind |-> "llm", quoted |-> <<>>]
    ELSE [kind |-> "fallback", quoted |-> Truncate(text, FallbackChars)]

\* _create_article_message: header, summary block, then the images.
create_article_message(id, llm_ok) ==
    [header |-> id,
     summary |-> summarize_article(llm_ok, ArticleText(id)),
     content |-> extract_content_with_images(ArticleBody(id))]

\* No message.
NoMessage ==
    [t |-> "none", id |-> 0, llm_ok |-> TRUE,
     chain |-> [header |-> 0, summary |-> [kind |-> "none", quoted |-> <<>>],
                content |-> <<>>]]

(* ------------------------------ check cycle ---------------------------- *)

\* Control state and locals of one _check_updates call.  pc is the await the
\* coroutine is suspended in: "fetch" (client.get of `feed`), "render"
\* (llm_generate for article `idx` of new_articles), "send" (send_message to
\* `dst`).  pos/used/left are the dict iterator of _send_to_registered_groups
\* (next slot, len(d) when it was created, items still expected); in the
\* legacy path pos is the index into group_ids.
IdleTask ==
    [pc |-> "idle", feed |-> "none", new |-> <<>>, idx |-> 0, mode |-> "none",
     gids |-> <<>>, pos |-> 0, used |-> 0, left |-> 0, dst |-> <<>>]

\* _check_updates: the first feed to fetch, per the two enable_* options.
first_feed(cfg) ==
    IF cfg.enable_beta THEN "Beta"
    ELSE IF cfg.enable_release THEN "Release"
    ELSE "done"

\* _check_updates: is_first_run after the feed checks (nf = "done") is False.
clear_first_run_never(nf, first) == first

clear_first_run(nf, first) == IF nf = "done" THEN FALSE ELSE first

\* _check_updates: what follows the check of `feed`, whatever it returned.
feed_after(feed, cfg) ==
    IF feed = "Beta" /\ cfg.enable_release THEN "Release" ELSE "done"

\* A target selection that prefers a configured legacy list to the registry.
select_targets_legacy_first(d, cfg) ==
    IF ~IsBlank(cfg.group_ids) /\ parse_group_ids(cfg.group_ids) # <<>>
    THEN [mode |-> "legacy", gids |-> parse_group_ids(cfg.group_ids)]
    ELSE IF dict_len(d) > 0 THEN [mode |-> "registry", gids |-> <<>>]
    ELSE [mode |-> "none", gids |-> <<>>]

\* _process_new_articles: the registry if it is non-empty, else the parsed
\* legacy list, else nothing.
select_targets(d, cfg) ==
    IF dict_len(d) > 0 THEN [mode |-> "registry", gids |-> <<>>]
    ELSE IF IsBlank(cfg.group_ids) THEN [mode |-> "none", gids |-> <<>>]
    ELSE IF parse_group_ids(cfg.group_ids) = <<>> THEN [mode |-> "none", gids |-> <<>>]
    ELSE [mode |-> "legacy", gids |-> parse_group_ids(cfg.group_ids)]

\* One step of a dict items() iterator: RuntimeError when the dict's size is
\* not the size it had when the iterator was created, the next live slot from
\* pos on otherwise, RuntimeError again when one is found after as many items
\* as the dict had were already produced.
iter_next(d, pos, used, left) ==
    IF used # dict_len(d) THEN [kind |-> "error", i |-> 0]
    ELSE IF {i \in LiveSlots(d) : i >= pos} = {} THEN [kind |-> "stop", i |-> 0]
    ELSE IF left = 0 THEN [kind |-> "error", i |-> 0]
    ELSE [kind |-> "item",
          i |-> CHOOSE i \in LiveSlots(d) :
                  i >= pos /\ \A j \in LiveSlots(d) : j >= pos => i <= j]

\* _process_new_articles: on to the next article, or the cycle is over.
next_article(tk) ==
    IF tk.idx < Len(tk.new)
    THEN [tk EXCEPT !.pc = "render", !.idx = tk.idx + 1,
                    !.pos = 0, !.used = 0, !.left = 0, !.dst = <<>>]
    ELSE IdleTask

\* _send_to_registered_groups: the loop head.  An item suspends the task in
\* its send; the end of the loop, or the iterator's RuntimeError (raised
\* outside the loop's try, caught per article by _process_new_articles),
\* moves on to the next article.
registry_step(tk, d, pos, used, left) ==
    LET r == iter_next(d, pos, used, left) IN
    IF r.kind = "item"
    THEN [tk EXCEPT !.pc = "send", !.dst = d[r.i].v, !.pos = r.i + 1,
                    !.used = used, !.left = left - 1]
    ELSE next_article(tk)

\* _send_to_groups: the loop head over group_ids.
legacy_step(tk, j) ==
    IF j <= Len(tk.gids)
    THEN [tk EXCEPT !.pc = "send", !.dst = legacy_origin(tk.gids[j]), !.pos = j]
    ELSE next_article(tk)

\* After _create_article_message: the fan-out of the message begins.
start_fanout(tk, d) ==
    IF tk.mode = "registry"
    THEN registry_step(tk, d, 1, dict_len(d), dict_len(d))
    ELSE legacy_step(tk, 1)

\* A fan-out whose try is around the loop: a send that raises ends it.
after_send_aborts(tk, d, sent_ok) ==
    IF ~sent_ok THEN next_article(tk)
    ELSE IF tk.mode = "registry"
    THEN registry_step(tk, d, tk.pos, tk.used, tk.left)
    ELSE legacy_step(tk, tk.pos + 1)

\* After a send_message returned or raised (the exception is logged inside
\* the loop): the loop goes on.
after_send(tk, d, sent_ok) ==
    IF tk.mode = "registry"
    THEN registry_step(tk, d, tk.pos, tk.used, tk.left)
    ELSE legacy_step(tk, tk.pos + 1)

\* _check_updates after its feed checks: with new articles,
\* _process_new_articles picks its targets and starts on the first article.
start_delivery(articles, d, cfg) ==
    LET sel == select_targets(d, cfg) IN
    IF articles = <<>> \/ sel.mode = "none" THEN IdleTask
    ELSE [IdleTask EXCEPT !.pc = "render", !.new = articles, !.idx = 1,
                          !.mode = sel.mode, !.gids = sel.gids]

(* ------------------------------- history ------------------------------- *)

\* The _fetch_articles call completed by the latest step, if that step was
\* one: the task and feed, whether the fetch succeeded, whether the first-run
\* branch ran, the page received, the Seen-Set before and after, the ids
\* returned as new, and the outcome of _save_seen_articles ("none": not called).
NoCheck ==
    [t |-> "none", feed |-> "none", ok |-> FALSE, first |-> FALSE, page |-> <<>>,
     before |-> {}, after |-> {}, new |-> <<>>, save |-> "none"]

\* What a _check_updates call has done so far: inv is 1 for the first call of
\* the process and 2 for any later one; modes are the branches its feed
\* checks took; st and nw are each feed's outcome and new ids; called and
\* passed are the call of _process_new_articles and its argument; sel and
\* regs are the targets it picked and the registry's addresses at that
\* moment; rendered and sent log the messages built and the send_message
\* calls made; failed is the place in sent of the first send that raised
\* (0: none did); quiet is FALSE once a command changed the registry during
\* the delivery; fstart is the registry's addresses when the fan-out of the
\* article in hand started.
NoCycle ==
    [phase |-> "none", inv |-> 0, modes |-> {},
     st |-> [f \in Feeds |-> "none"], nw |-> [f \in Feeds |-> <<>>],
     called |-> FALSE, passed |-> <<>>, sel |-> "none", regs |-> {},
     rendered |-> <<>>, sent |-> <<>>, failed |-> 0, quiet |-> TRUE,
     fstart |-> {}]

ArticleIds(articles) == [i \in 1..Len(articles) |-> articles[i][1]]

\* The histories after task t's step left it in state tk2 with history c: a
\* send just started is logged; a task back at idle has ended its cycle.
Settle(t, c, tk2) ==
    LET c2 == [c EXCEPT !.sent =
                  IF tk2.pc = "send"
                  THEN Append(@, [id |-> tk2.new[tk2.idx][1], dst |-> tk2.dst])
                  ELSE @]
    IN
    /\ cyc' = [cyc EXCEPT ![t] = IF tk2.pc = "idle" THEN NoCycle ELSE c2]
    /\ fin' = IF tk2.pc = "idle" THEN [c2 EXCEPT !.phase = "done"] ELSE NoCycle

\* The register or unregister command handled by the latest step, if that
\* step was one: the caller's origin, the reply, the registry and its document
\* as they were before it, and the same of the command handled by the step
\* before (pop = "none": that step was not a command).
NoCommand ==
    [op |-> "none", umo |-> <<>>, reply |-> "none", d0 |-> <<>>, f0 |-> NoGroupsFile,
     pop |-> "none", pumo |-> <<>>, pd0 |-> <<>>]

Command(op, ctx, reply) ==
    [op |-> op, umo |-> ctx.umo, reply |-> reply,
     d0 |-> registered_groups, f0 |-> groups_file,
     pop |-> cmd.op, pumo |-> cmd.umo, pd0 |-> cmd.d0]

(* ------------------------------- actions ------------------------------- *)

\* A deployment configured as cfg that has never checked a feed, with the
\* registered-destinations document gfile on disk: nothing published yet, and
\* the state __init__ builds from that.
InitFrom(cfg, gfile) ==
    /\ upstream = [f \in Feeds |-> <<>>]
    /\ seen_file = NoFile
    /\ groups_file = gfile
    /\ seen_article_ids = load_seen_articles(NoFile)
    /\ is_first_run = first_run_at_start(NoFile)
    /\ registered_groups = load_registered_groups(gfile)
    /\ config = cfg
    /\ task = [t \in Tasks |-> IdleTask]
    /\ boot = 0
    /\ ncmd = 0
    /\ calls = 0
    /\ chk = NoCheck
    /\ cyc = [t \in Tasks |-> NoCycle]
    /\ fin = NoCycle
    /\ idem = "none"
    /\ loaded = NoFile.st
    /\ told = {}
    /\ cmd = NoCommand
    /\ msg = NoMessage
    /\ components = NotExtracted

\* A fresh deployment: no documents on disk.
InitWith(cfg) == InitFrom(cfg, NoGroupsFile)

\* The site publishes an article in a feed: ids grow, the page lists the
\* newest first and holds MaxPage articles.
Publish(f) ==
    LET nid == 1 + Max(UNION {Range(upstream[g]) : g \in Feeds}) IN
    /\ nid <= MaxId
    /\ upstream' = [upstream EXCEPT ![f] = SubSeq(<<nid>> \o @, 1,
                        IF Len(@) + 1 <= MaxPage THEN Len(@) + 1 ELSE MaxPage)]
    /\ idem' = "none"
    /\ chk' = NoCheck
    /\ cmd' = NoCommand
    /\ msg' = NoMessage
    /\ fin' = NoCycle
    /\ UNCHANGED <<seen_article_ids, seen_file, is_first_run, registered_groups,
                   config, task, groups_file, boot, ncmd, calls, cyc, loaded,
                   told, soup, components>>

\* _check_updates up to its first await (the scheduler's job, or mcbe_check).
\* With both feeds disabled the whole call is this one step.
StartCheck(t) ==
    LET f == first_feed(config)
        clean == task[Other(t)].pc = "idle" /\ ~is_first_run
        second == idem \in {"done1", "done2"}
        tk2 == IF f = "done" THEN IdleTask
               ELSE [IdleTask EXCEPT !.pc = "fetch", !.feed = f]
    IN
    /\ task[t].pc = "idle"
    /\ calls' = IF calls = 0 THEN 1 ELSE 2
    /\ task' = [task EXCEPT ![t] = tk2]
    /\ is_first_run' = clear_first_run(f, is_first_run)
    /\ chk' = NoCheck
    /\ cmd' = NoCommand
    /\ msg' = NoMessage
    /\ Settle(t, [NoCycle EXCEPT !.phase = "feeds", !.inv = calls'], tk2)
    /\ idem' = IF ~clean THEN "none"
               ELSE IF f = "done" THEN (IF second THEN "done2" ELSE "done1")
               ELSE (IF second THEN "run2" ELSE "run1")
    /\ UNCHANGED <<upstream, seen_article_ids, seen_file, registered_groups,
                   config, groups_file, boot, ncmd, loaded, told, soup,
                   components>>

\* The response of client.get arrives (or the request fails): the rest of
\* _fetch_articles, then _check_updates up to its next await.
FetchReturn(t) ==
    \E ok \in BOOLEAN, out \in SaveOutcomes :
    LET tk == task[t]
        page == upstream[tk.feed]
        r == fetch_articles(ok, is_first_run, page, seen_article_ids, tk.feed)
        articles == tk.new \o r.new
        nf == feed_after(tk.feed, config)
        tk2 == IF nf # "done" THEN [tk EXCEPT !.feed = nf, !.new = articles]
               ELSE start_delivery(articles, registered_groups, config)
        mode == IF is_first_run THEN "first" ELSE "normal"
        called == nf = "done" /\ articles # <<>>
    IN
    /\ tk.pc = "fetch"
    /\ r.save \/ out = "ok"
    /\ seen_article_ids' = r.seen
    /\ seen_file' = IF r.save THEN save_seen_articles(seen_file, r.seen, out)
                    ELSE seen_file
    /\ is_first_run' = clear_first_run(nf, is_first_run)
    /\ task' = [task EXCEPT ![t] = tk2]
    /\ chk' = [t |-> t, feed |-> tk.feed, ok |-> ok, first |-> ok /\ is_first_run,
               page |-> page, before |-> seen_article_ids, after |-> r.seen,
               new |-> ArticleIds(r.new), save |-> IF r.save THEN out ELSE "none"]
    /\ Settle(t,
          [cyc[t] EXCEPT
              !.modes = IF ok THEN @ \cup {mode} ELSE @,
              !.st[tk.feed] = IF ok THEN "ok" ELSE "fail",
              !.nw[tk.feed] = ArticleIds(r.new),
              !.phase = IF nf # "done" THEN "feeds" ELSE "deliver",
              !.called = called,
              !.passed = IF called THEN ArticleIds(articles) ELSE <<>>,
              !.sel = IF called THEN select_targets(registered_groups, config).mode
                      ELSE "none",
              !.regs = IF called THEN dict_values(registered_groups) ELSE {}],
          tk2)
    /\ idem' = IF idem \notin {"run1", "run2"} \/ ~ok THEN "none"
               ELSE IF nf # "done" THEN idem
               ELSE IF idem = "run1" THEN "done1" ELSE "done2"
    /\ told' = told \cup Range(ArticleIds(r.new))
    /\ cmd' = NoCommand
    /\ msg' = NoMessage
    /\ UNCHANGED <<upstream, registered_groups, config, groups_file, boot, ncmd,
                   calls, loaded, soup, components>>

\* llm_generate returns (llm_ok) or raises, and _summarize_article then
\* returns its fallback text: _create_article_message builds the message and
\* the fan-out starts, up to the first send_message.
RenderReturn(t) ==
    \E llm_ok \in BOOLEAN :
    LET tk == task[t]
        tk2 == start_fanout(tk, registered_groups)
        id == tk.new[tk.idx][1]
    IN
    /\ tk.pc = "render"
    /\ task' = [task EXCEPT ![t] = tk2]
    /\ chk' = NoCheck
    /\ cmd' = NoCommand
    /\ msg' = [t |-> t, id |-> id, llm_ok |-> llm_ok,
               chain |-> create_article_message(id, llm_ok)]
    /\ Settle(t, [cyc[t] EXCEPT !.rendered = Append(@, tk.new[tk.idx][1]),
                                !.fstart = IF tk.mode = "registry"
                                           THEN dict_values(registered_groups)
                                           ELSE {}],
              tk2)
    /\ UNCHANGED <<upstream, seen_article_ids, seen_file, is_first_run,
                   registered_groups, config, groups_file, boot, ncmd, calls, idem,
                   loaded, told, soup, components>>

\* _create_article_message raises outside _summarize_article's own try (in
\* parsing the body or building the chain): _process_new_articles logs it
\* and goes on to the next article; nothing is sent for this one.
RenderRaises(t) ==
    LET tk == task[t]
        tk2 == next_article(tk)
    IN
    /\ tk.pc = "render"
    /\ task' = [task EXCEPT ![t] = tk2]
    /\ chk' = NoCheck
    /\ cmd' = NoCommand
    /\ msg' = NoMessage
    /\ Settle(t, cyc[t], tk2)
    /\ UNCHANGED <<upstream, seen_article_ids, seen_file, is_first_run,
                   registered_groups, config, groups_file, boot, ncmd, calls, idem,
                   loaded, told, soup, components>>

\* send_message returns or raises: the loop of _send_to_registered_groups or
\* _send_to_groups goes on, up to the next await.
SendReturn(t) ==
    \E sent_ok \in BOOLEAN :
    LET tk == task[t]
        tk2 == after_send(tk, registered_groups, sent_ok)
    IN
    /\ tk.pc = "send"
    /\ task' = [task EXCEPT ![t] = tk2]
    /\ chk' = NoCheck
    /\ cmd' = NoCommand
    /\ msg' = NoMessage
    /\ Settle(t, [cyc[t] EXCEPT !.failed = IF ~sent_ok /\ @ = 0
                                           THEN Len(cyc[t].sent) ELSE @], tk2)
    /\ UNCHANGED <<upstream, seen_article_ids, seen_file, is_first_run,
                   registered_groups, config, groups_file, boot, ncmd, calls, idem,
                   loaded, told, soup, components>>

\* The histories of the deliveries in flight after a command left the
\* registry as d2.
Disturbed(d2) ==
    [t \in Tasks |->
        IF cyc[t].phase = "deliver" /\ d2 # registered_groups
        THEN [cyc[t] EXCEPT !.quiet = FALSE] ELSE cyc[t]]

\* mcbe_register
mcbe_register(ctx) ==
    \E out \in SaveOutcomes :
    LET d2 == dict_set(registered_groups, group_id_of(ctx), ctx.umo) IN
    /\ ncmd < MaxRegistryCommands
    /\ ncmd' = ncmd + 1
    /\ registered_groups' = d2
    /\ groups_file' = save_registered_groups(groups_file, d2, out)
    /\ cyc' = Disturbed(d2)
    /\ chk' = NoCheck
    /\ cmd' = Command("register", ctx, "registered")
    /\ msg' = NoMessage
    /\ fin' = NoCycle
    /\ UNCHANGED <<upstream, seen_article_ids, seen_file, is_first_run, config,
                   task, boot, calls, idem, loaded, told, soup, components>>

\* mcbe_unregister: the first entry whose value is the caller's origin is
\* deleted and the registry saved; with no such entry nothing is touched.
mcbe_unregister(ctx) ==
    \E out \in SaveOutcomes :
    LET i == first_with_value(registered_groups, ctx.umo)
        d2 == IF i = 0 THEN registered_groups ELSE dict_del(registered_groups, i)
    IN
    /\ ncmd < MaxRegistryCommands
    /\ ncmd' = ncmd + 1
    /\ i # 0 \/ out = "ok"
    /\ registered_groups' = d2
    /\ groups_file' = IF i = 0 THEN groups_file
                      ELSE save_registered_groups(groups_file, d2, out)
    /\ cyc' = Disturbed(d2)
    /\ chk' = NoCheck
    /\ cmd' = Command("unregister", ctx, IF i = 0 THEN "not registered" ELSE "removed")
    /\ msg' = NoMessage
    /\ fin' = NoCycle
    /\ UNCHANGED <<upstream, seen_article_ids, seen_file, is_first_run, config,
                   task, boot, calls, idem, loaded, told, soup, components>>

\* A command that only reads the plugin's state and replies.
ReadOnly ==
    /\ chk' = NoCheck
    /\ cmd' = NoCommand
    /\ msg' = NoMessage
    /\ fin' = NoCycle
    /\ UNCHANGED <<upstream, seen_article_ids, seen_file, is_first_run,
                   registered_groups, config, task, groups_file, boot, ncmd,
                   calls, cyc, idem, loaded, told, soup, components>>

mcbe_news == ReadOnly
mcbe_status == ReadOnly
mcbe_help == ReadOnly

\* The process is stopped, at any point, and started again: __init__ reloads
\* both documents; the coroutines of the old process are gone.  `loaded` notes
\* whether the seen-ids document was absent, readable or unreadable.
Restart ==
    /\ boot < MaxRestarts
    /\ boot' = boot + 1
    /\ seen_article_ids' = load_seen_articles(seen_file)
    /\ is_first_run' = first_run_at_start(seen_file)
    /\ registered_groups' = load_registered_groups(groups_file)
    /\ task' = [t \in Tasks |-> IdleTask]
    /\ calls' = 0
    /\ chk' = NoCheck
    /\ cmd' = NoCommand
    /\ msg' = NoMessage
    /\ cyc' = [t \in Tasks |-> NoCycle]
    /\ fin' = NoCycle
    /\ idem' = "none"
    /\ loaded' = seen_file.st
    /\ told' = {}
    /\ UNCHANGED <<upstream, seen_file, groups_file, config, ncmd, soup,
                   components>>

\* _extract_content_with_images runs on the body in hand.
ExtractImages ==
    /\ ~components.done
    /\ components' = [done |-> TRUE, chain |-> extract_content_with_images(soup)]
    /\ UNCHANGED <<upstream, seen_article_ids, seen_file, is_first_run,
                   registered_groups, config, task, groups_file, boot, ncmd,
                   calls, chk, cyc, fin, idem, loaded, told, cmd, soup, msg>>

(* --------------------------- specifications ---------------------------- *)

\* A deployment nobody registered with, one check cycle at a time: the
\* scheduler's job and mcbe_check commands that do not overlap, publications,
\* restarts, and any outcome of each fetch, save and send.  Targets come from
\* the legacy list.
CheckConfigs ==
    [enable_beta : BOOLEAN, enable_release : BOOLEAN,
     group_ids : {<<"">>, <<" g1 ", "", "g2">>}]

Init == \E cfg \in CheckConfigs : InitWith(cfg) /\ soup = <<>>

Next ==
    \/ \E f \in Feeds : Publish(f)
    \/ \E t \in Tasks : task[Other(t)].pc = "idle" /\ StartCheck(t)
    \/ \E t \in Tasks : FetchReturn(t)
    \/ \E t \in Tasks : RenderReturn(t)
    \/ \E t \in Tasks : RenderRaises(t)
    \/ \E t \in Tasks : SendReturn(t)
    \/ mcbe_news
    \/ mcbe_status
    \/ mcbe_help
    \/ Restart

Spec == Init /\ [][Next]_vars

\* A fresh deployment whose upstream listing no longer changes once the
\* first check cycle has started: check cycles one at a time, any outcome of
\* each fetch, save, summarisation and send, no restart.
InitFresh == \E cfg \in CheckConfigs : InitWith(cfg) /\ soup = <<>>

NextFresh ==
    \/ \E f \in Feeds : calls = 0 /\ Publish(f)
    \/ \E t \in Tasks : task[Other(t)].pc = "idle" /\ StartCheck(t)
    \/ \E t \in Tasks : FetchReturn(t)
    \/ \E t \in Tasks : RenderReturn(t)
    \/ \E t \in Tasks : SendReturn(t)

SpecFresh == InitFresh /\ [][NextFresh]_vars

\* The same deployment when an mcbe_check command may start while the
\* scheduler's check is suspended, and the other way round.
OverlapConfigs ==
    [enable_beta : {TRUE}, enable_release : {TRUE}, group_ids : {<<" g1 ">>}]

InitOverlap == \E cfg \in OverlapConfigs : InitWith(cfg) /\ soup = <<>>

NextOverlap ==
    \/ \E f \in Feeds : Publish(f)
    \/ \E t \in Tasks : StartCheck(t)
    \/ \E t \in Tasks : FetchReturn(t)
    \/ \E t \in Tasks : RenderReturn(t)
    \/ \E t \in Tasks : RenderRaises(t)
    \/ \E t \in Tasks : SendReturn(t)

SpecOverlap == InitOverlap /\ [][NextOverlap]_vars

\* The delivery of a deployment with both feeds on: the scheduler's check
\* cycles, with register and unregister commands handled at any suspension
\* point of the fan-out.  Every fetch, every save of the seen ids and every
\* summarisation succeeds.
FanoutConfigs ==
    [enable_beta : {TRUE}, enable_release : {TRUE},
     group_ids : {<<"">>, <<" ", "">>, <<" g1 ", "", "g2">>}]

InitFanout == \E cfg \in FanoutConfigs : InitWith(cfg) /\ soup = <<>>

NextFanout ==
    \/ \E f \in Feeds : Publish(f)
    \/ StartCheck("sched")
    \/ FetchReturn("sched") /\ chk'.ok /\ chk'.save \in {"none", "ok"}
    \/ RenderReturn("sched") /\ msg'.llm_ok
    \/ SendReturn("sched")
    \/ \E ctx \in Contexts : ncmd < MaxCommands /\ mcbe_register(ctx)
    \/ \E ctx \in Contexts : ncmd < MaxCommands /\ mcbe_unregister(ctx)

SpecFanout == InitFanout /\ [][NextFanout]_vars

\* A deployment with both feeds on and no legacy list.
RegistryConfigs ==
    [enable_beta : {TRUE}, enable_release : {TRUE}, group_ids : {<<"">>}]

\* The delivery of a deployment in which two groups registered before the
\* process started: the scheduler's check cycles, with register and unregister
\* commands handled at any suspension point of the fan-out.  Every fetch,
\* every save of the seen ids and every summarisation succeeds.
TwoGroupsFile ==
    [st |-> "ok",
     doc |-> <<[k |-> <<"7">>, v |-> <<"qq", "group", "7">>],
               [k |-> <<"9">>, v |-> <<"qq", "friend", "9">>]>>]

InitLive == \E cfg \in RegistryConfigs : InitFrom(cfg, TwoGroupsFile) /\ soup = <<>>

NextLive ==
    \/ \E f \in Feeds : Publish(f)
    \/ StartCheck("sched")
    \/ FetchReturn("sched") /\ chk'.ok /\ chk'.save \in {"none", "ok"}
    \/ RenderReturn("sched") /\ msg'.llm_ok
    \/ SendReturn("sched")
    \/ \E ctx \in Contexts : ncmd < MaxCommands /\ mcbe_register(ctx)
    \/ \E ctx \in Contexts : ncmd < MaxCommands /\ mcbe_unregister(ctx)

SpecLive == InitLive /\ [][NextLive]_vars

\* The registry of a deployment by itself: register and unregister commands
\* from the calling contexts in any order, any outcome of each save of the
\* document, and restarts, which reload it.
InitRegistry == \E cfg \in RegistryConfigs : InitWith(cfg) /\ soup = <<>>

NextRegistry ==
    \/ \E ctx \in Contexts : mcbe_register(ctx)
    \/ \E ctx \in Contexts : mcbe_unregister(ctx)
    \/ Restart

SpecRegistry == InitRegistry /\ [][NextRegistry]_vars

\* Image extraction by itself, on article bodies of this shape: up to MaxLead
\* nodes, then up to MaxBodyImages imgs with absolute sources of their own,
\* then up to MaxTrail nodes.  The nodes before and after are figures and
\* imgs whose sources are empty, root-relative, absolute on the base origin,
\* or the source of the first img of the middle part.
OddNodes ==
    { ImgNode(NoSrc),
      ImgNode([o |-> "rel", p |-> 1]),
      ImgNode([o |-> "base", p |-> 1]),
      ImgNode([o |-> "cdn", p |-> 1]),
      FigureNode(<<>>),
      FigureNode(<<[o |-> "rel", p |-> 1]>>),
      FigureNode(<<[o |-> "cdn", p |-> 1], [o |-> "rel", p |-> 2]>>) }

OddRuns(n) == UNION {[1..k -> OddNodes] : k \in 0..n}

OwnImages(n) == [i \in 1..n |-> ImgNode([o |-> "cdn", p |-> i])]

Bodies ==
    { lead \o OwnImages(n) \o trail :
        lead \in OddRuns(MaxLead), n \in 0..MaxBodyImages, trail \in OddRuns(MaxTrail) }

InitImages ==
    /\ \E cfg \in RegistryConfigs : InitWith(cfg)
    /\ soup \in Bodies

NextImages == ExtractImages

SpecImages == InitImages /\ [][NextImages]_vars

(* ------------------------------- claims -------------------------------- *)

\* The check cycles in view: those in progress and the one that just ended.
Cycles == {cyc[t] : t \in Tasks} \cup {fin}

\* A cycle that is past its feed checks.
PastFeeds(c) == c.phase \in {"deliver", "done"}

Distinct(page) == \A i, j \in 1..Len(page) : page[i] = page[j] => i = j

\* C1: a successful normal-mode feed check of a page with distinct ids
\* returns exactly the page's articles whose ids were not in the Seen-Set
\* before, once each and in page order, and leaves the Seen-Set equal to the
\* prior set united with those ids.
C1_NormalCheckReturnsUnseen ==
    (chk.ok /\ ~chk.first /\ Distinct(chk.page)) =>
        /\ chk.new = SelectSeq(chk.page, LAMBDA id : id \notin chk.before)
        /\ chk.after = chk.before \cup Range(chk.new)
        /\ seen_article_ids = chk.after

\* The example of the specification: the older article of a two-article page
\* was seen, the newer was not.
C1_Witness ==
    /\ chk.ok /\ ~chk.first
    /\ Len(chk.page) = 2
    /\ chk.page[2] \in chk.before
    /\ chk.page[1] \notin chk.before
    /\ chk.new = <<chk.page[1]>>

\* C2: a successful first-run feed check of a non-empty page returns exactly
\* one article, the first of the page, and afterwards every id of the page
\* is in the Seen-Set.
C2_FirstRunSeedsPage ==
    (chk.ok /\ chk.first /\ chk.page # <<>>) =>
        /\ chk.new = <<chk.page[1]>>
        /\ Range(chk.page) \subseteq seen_article_ids

\* A first-run check of a page of two articles.
C2_Witness ==
    /\ chk.ok /\ chk.first
    /\ Len(chk.page) = 2
    /\ ~(chk.page[2] \in chk.before)

\* C3: when a normal-mode check cycle whose fetches all succeeded is followed,
\* with no overlap and no change upstream, by another whose fetches succeed,
\* each feed check of the second returns nothing and leaves the Seen-Set as
\* it was, and the second cycle has no new articles.
C3_SecondCheckFindsNothing ==
    /\ (chk.t # "none" /\ idem \in {"run2", "done2"}) =>
            chk.new = <<>> /\ chk.after = chk.before
    /\ (fin.phase = "done" /\ idem = "done2") =>
            ~fin.called /\ fin.passed = <<>>

\* A second clean cycle has ended, which fetched a listing that is not empty.
C3_Witness ==
    /\ idem = "done2"
    /\ fin.phase = "done"
    /\ \E f \in Feeds : fin.st[f] = "ok" /\ chk.feed = f /\ chk.page # <<>>

\* C4: a feed check whose fetch fails returns nothing and leaves the Seen-Set
\* and its document alone; in a cycle with both feeds enabled in which a
\* fetch failed, both feeds were still checked, the failed one contributed
\* nothing, and the other's new articles are what _process_new_articles is
\* called with and what the delivery works on.
C4_FetchFailureIsolated ==
    /\ (chk.t # "none" /\ ~chk.ok) =>
            chk.new = <<>> /\ chk.after = chk.before /\ chk.save = "none"
    /\ \A c \in Cycles :
        (PastFeeds(c) /\ config.enable_beta /\ config.enable_release
            /\ \E f \in Feeds : c.st[f] = "fail") =>
            /\ \A f \in Feeds : c.st[f] # "none"
            /\ \A f \in Feeds : c.st[f] = "fail" => c.nw[f] = <<>>
            /\ c.passed = c.nw["Beta"] \o c.nw["Release"]
            /\ c.called = (c.passed # <<>>)
    /\ \A t \in Tasks :
        cyc[t].phase = "deliver" => ArticleIds(task[t].new) = cyc[t].passed

\* The specification's case: the beta fetch failed, the release feed had a
\* new article, and the cycle is delivering it.
C4_Witness ==
    \E t \in Tasks :
        /\ cyc[t].phase = "deliver"
        /\ cyc[t].st["Beta"] = "fail"
        /\ cyc[t].st["Release"] = "ok"
        /\ cyc[t].passed # <<>>
        /\ task[t].pc = "send"

\* C5: the first-run branch is taken only by feed checks of the first
\* _check_updates call of the process, and the feed checks of one cycle all
\* take the same branch, also when an mcbe_check starts while the first
\* scheduled check is suspended in a fetch.
C5_FirstRunOnlyInFirstCall ==
    \A c \in Cycles :
        /\ "first" \in c.modes => c.inv = 1
        /\ Cardinality(c.modes) <= 1

\* C6: is_first_run is False whenever a check cycle is past its feed checks,
\* whatever was enabled and however the fetches ended, and within a process
\* it never goes from False back to True.
C6_FirstRunFlagLifecycle ==
    /\ [](\A c \in Cycles : PastFeeds(c) => ~is_first_run)
    /\ [][(boot' = boot /\ ~is_first_run) => ~is_first_run']_vars

\* The first cycle of a process has ended with both of its fetches failed.
C6_Witness ==
    /\ fin.phase = "done"
    /\ fin.inv = 1
    /\ \A f \in Feeds : fin.st[f] = "fail"
    /\ ~is_first_run

\* The Seen-Set document's ids, as far as it can be read.
Persisted == IF seen_file.st = "ok" THEN Range(seen_file.seen_ids) ELSE {}

\* C9 as claimed: no step, a restart's reload included, removes an id from
\* the in-memory Seen-Set.
C9_NeverLosesAnId == [][seen_article_ids \subseteq seen_article_ids']_vars

\* C9 as amended: within a process no step removes an id from the in-memory
\* Seen-Set; the document, while readable, holds only ids of the in-memory
\* set; and a restart reloads exactly the document's ids, or nothing when
\* the document is absent or unreadable.
C9_GrowsWithinProcess ==
    /\ [](Persisted \subseteq seen_article_ids)
    /\ [][/\ boot' = boot => seen_article_ids \subseteq seen_article_ids'
          /\ boot' # boot => seen_article_ids' = Persisted]_vars

\* A restarted process that reloaded ids from the document.
C9_Witness == boot > 0 /\ calls = 0 /\ seen_article_ids # {}

\* C10 as claimed: every call of _save_seen_articles follows, in its feed
\* check, the addition of an id that was not yet in the Seen-Set.
C10_SaveOnlyAfterAddition == chk.save # "none" => chk.after # chk.before

\* C10 as amended: in normal mode _save_seen_articles is called exactly when
\* the feed check added an id to the Seen-Set; in first-run mode it is
\* called by every feed check whose fetch succeeded, whatever the page held.
C10_SaveAfterAdditionInNormalMode ==
    /\ (chk.t # "none" /\ ~chk.first) => (chk.save # "none" <=> chk.after # chk.before)
    /\ chk.first => chk.save # "none"

\* A normal-mode feed check that added an id and saved.
C10_Witness == chk.ok /\ ~chk.first /\ chk.save # "none" /\ chk.after # chk.before

\* The non-blank entries of the legacy list, as addresses.
LegacyTargets ==
    {legacy_origin(Strip(config.group_ids[i])) :
        i \in {j \in 1..Len(config.group_ids) : Strip(config.group_ids[j]) # ""}}

\* Every send of each article of the cycle to each of the targets D.
AllSends(c, D) == {[id |-> c.passed[i], dst |-> d] : i \in 1..Len(c.passed), d \in D}

\* C7: a cycle with new articles whose registry was non-empty (and was not
\* changed by a command during the delivery) rendered every new article and
\* attempted a send of each to every registered address and to no other;
\* with an empty registry the sends went to the non-blank entries of the
\* legacy list, which is nothing at all when there are none.
C7_FanoutTargets ==
    (fin.phase = "done" /\ fin.called /\ fin.quiet) =>
        IF fin.regs # {}
        THEN /\ fin.sel = "registry"
             /\ fin.rendered = fin.passed
             /\ Range(fin.sent) = AllSends(fin, fin.regs)
        ELSE /\ fin.sel # "registry"
             /\ Range(fin.sent) = AllSends(fin, LegacyTargets)
             /\ LegacyTargets # {} => fin.rendered = fin.passed

\* Two new articles went to two registered addresses although a legacy list
\* was configured.
C7_Witness ==
    /\ fin.phase = "done" /\ fin.called /\ fin.quiet
    /\ Cardinality(fin.regs) = 2
    /\ Len(fin.passed) = 2
    /\ Len(fin.sent) = 4
    /\ LegacyTargets # {}

\* C8: in a delivery in which a send raised (and during which no command
\* changed the registry), a send was still attempted for every article of
\* the cycle to every target, the ones after the failed send included, and
\* every article was rendered.
C8_SendFailureIsolated ==
    (fin.phase = "done" /\ fin.failed # 0 /\ fin.quiet) =>
        LET D == IF fin.sel = "registry" THEN fin.regs ELSE LegacyTargets IN
        /\ Len(fin.sent) = Len(fin.passed) * Cardinality(D)
        /\ \A i \in 1..Len(fin.passed), d \in D :
              \E k \in 1..Len(fin.sent) : fin.sent[k] = [id |-> fin.passed[i], dst |-> d]
        /\ fin.rendered = fin.passed

\* The very first send of a delivery raised; the other address and the
\* second article were still served.
C8_Witness ==
    /\ fin.phase = "done" /\ fin.quiet
    /\ fin.failed = 1
    /\ Len(fin.passed) = 2
    /\ Len(fin.sent) = 4

\* What a successful feed check has to return: the newest article of the page
\* in first-run mode, the unseen articles of the page in normal mode.
ExpectedNew(c) ==
    IF c.first THEN (IF c.page = <<>> THEN <<>> ELSE <<c.page[1]>>)
    ELSE SelectSeq(c.page, LAMBDA id : id \notin c.before)

\* C11: when _save_seen_articles fails inside a feed check, the check still
\* completes as a successful one and returns its new articles, the ids it
\* added stay in the in-memory Seen-Set, and the seen-ids document is what it
\* was before the check.
C11_FailedSaveKeepsDocument ==
    [][chk'.save \in {"open_fail", "write_fail"} =>
          /\ chk'.ok
          /\ chk'.new = ExpectedNew(chk')
          /\ seen_article_ids' = chk'.after
          /\ chk'.before \cup Range(chk'.new) \subseteq seen_article_ids'
          /\ seen_file' = seen_file]_vars

\* The part of C11 that does not concern the document.
C11_FailedSaveKeepsMemory ==
    chk.save \in {"open_fail", "write_fail"} =>
        /\ chk.ok
        /\ chk.new = ExpectedNew(chk)
        /\ seen_article_ids = chk.after
        /\ chk.before \cup Range(chk.new) \subseteq seen_article_ids

\* A normal-mode check found a new article, the write failed after the
\* document, which held ids, had been opened for writing.
C11_Witness ==
    /\ chk.save = "write_fail"
    /\ ~chk.first
    /\ chk.new # <<>>
    /\ chk.before # {}
    /\ seen_file = BadFile

\* The check cycle the feed check of the latest step belongs to.
CycleOfCheck == IF cyc[chk.t].phase # "none" THEN cyc[chk.t] ELSE fin

\* C12: a process started on a seen-ids document that exists but cannot be
\* read starts with an empty Seen-Set and as a first run: the feed checks of
\* its first check cycle take the first-run branch, mark the whole page seen
\* and return only its newest article.
C12_UnreadableDocumentMeansFirstRun ==
    /\ (loaded = "corrupt" /\ calls = 0) =>
            seen_article_ids = {} /\ is_first_run
    /\ (loaded = "corrupt" /\ chk.ok /\ CycleOfCheck.inv = 1) =>
            /\ chk.first
            /\ Len(chk.new) <= 1
            /\ chk.new = ExpectedNew(chk)
            /\ Range(chk.page) \subseteq seen_article_ids

\* What the code does in that case: the Seen-Set is empty, the process is not
\* a first run, and the first successful check of a feed returns every
\* article of the page.
C12_UnreadableDocumentFloods ==
    /\ (loaded = "corrupt" /\ calls = 0) =>
            seen_article_ids = {} /\ ~is_first_run
    /\ (loaded = "corrupt" /\ chk.ok /\ CycleOfCheck.inv = 1
            /\ chk.feed = first_feed(config)) =>
            /\ ~chk.first
            /\ chk.new = chk.page

\* A process started on an unreadable document has checked a feed that lists
\* two articles.
C12_Witness ==
    /\ loaded = "corrupt"
    /\ chk.ok
    /\ CycleOfCheck.inv = 1
    /\ Len(chk.page) = 2
    /\ Len(chk.new) = 2

\* The entries of a registry, as a set of key/value records.
Entries(d) == {d[i] : i \in LiveSlots(d)}

C13_WitnessUnknown ==
    /\ cmd.op = "unregister"
    /\ cmd.reply = "not registered"
    /\ Entries(registered_groups) # {}
    /\ groups_file.st = "ok"

\* The image URLs of a list of components, in order.
ImageUrls(chain) ==
    LET imgs == SelectSeq(chain, LAMBDA c : c.kind = "image")
    IN [i \in 1..Len(imgs) |-> imgs[i].url]

\* The URL a source resolves to.
Resolved(src) == IF is_root_relative(src) THEN on_base(src) ELSE src

\* The resolved URLs of the imgs of a body that have a source, in document
\* order.
SourceUrls(nodes) ==
    LET imgs == SelectSeq(find_all(nodes),
                          LAMBDA e : e.name = "img" /\ e.src # NoSrc)
    IN [i \in 1..Len(imgs) |-> Resolved(imgs[i].src)]

\* A sequence without the repetitions of its earlier members.
RECURSIVE FirstOccurrences(_, _)
FirstOccurrences(seq, had) ==
    IF seq = <<>> THEN <<>>
    ELSE IF Head(seq) \in had THEN FirstOccurrences(Tail(seq), had)
    ELSE <<Head(seq)>> \o FirstOccurrences(Tail(seq), had \cup {Head(seq)})

FirstN(seq, n) == SubSeq(seq, 1, IF Len(seq) < n THEN Len(seq) ELSE n)

HasRootRelative(nodes) ==
    \E i \in 1..Len(find_all(nodes)) : is_root_relative(find_all(nodes)[i].src)

\* C14: _extract_content_with_images emits no image URL twice, whatever the
\* body: root-relative sources and imgs reached through their figure and by
\* themselves included.
C14_EachUrlOnce ==
    components.done => Distinct(ImageUrls(components.chain))

\* What holds of the code: no URL is emitted twice for a body without
\* root-relative sources.
C14_AbsoluteUrlsOnce ==
    (components.done /\ ~HasRootRelative(soup)) => Distinct(ImageUrls(components.chain))

\* A figure whose img has a root-relative source was extracted.
C14_Witness ==
    /\ components.done
    /\ \E i \in 1..Len(soup) :
          soup[i].name = "figure" /\ soup[i].imgs # <<>>
              /\ is_root_relative(soup[i].imgs[1])

\* C15: the images emitted are the first max_images of the body's distinct
\* sources, resolved against the base origin, in document order: all of them
\* when there are at most max_images, exactly max_images otherwise.
C15_FirstTenInOrder ==
    components.done =>
        LET urls == FirstOccurrences(SourceUrls(soup), {}) IN
        /\ ImageUrls(components.chain) = FirstN(urls, max_images)
        /\ Len(urls) > max_images => Len(ImageUrls(components.chain)) = max_images

\* What holds of the code: the same, for a body without root-relative sources.
C15_FirstTenAbsoluteInOrder ==
    (components.done /\ ~HasRootRelative(soup)) =>
        ImageUrls(components.chain)
            = FirstN(FirstOccurrences(SourceUrls(soup), {}), max_images)

\* A body with more than max_images distinct sources, one of them
\* root-relative, was extracted.
C15_Witness ==
    /\ components.done
    /\ Len(FirstOccurrences(SourceUrls(soup), {})) > max_images
    /\ HasRootRelative(soup)
    /\ Len(ImageUrls(components.chain)) = max_images

\* C16: when the summarisation call fails for an article, the summary is the
\* fallback, which quotes the first FallbackChars characters of the
\* article's text; the message is still built, with its header, that summary
\* and the article's images, and the cycle goes on to send it.
C16_FallbackSummaryStillSent ==
    (msg.t # "none" /\ ~msg.llm_ok) =>
        /\ msg.chain.header = msg.id
        /\ msg.chain.summary.kind = "fallback"
        /\ msg.chain.summary.quoted = Truncate(ArticleText(msg.id), FallbackChars)
        /\ Len(msg.chain.summary.quoted) <= FallbackChars
        /\ msg.chain.content = extract_content_with_images(ArticleBody(msg.id))
        /\ task[msg.t].pc = "send"
        /\ task[msg.t].new[task[msg.t].idx][1] = msg.id
        /\ cyc[msg.t].sent # <<>>
        /\ cyc[msg.t].sent[Len(cyc[msg.t].sent)].id = msg.id

\* The summarisation failed for an article whose text is longer than the
\* quotation and whose body has images.
C16_Witness ==
    /\ msg.t # "none" /\ ~msg.llm_ok
    /\ Len(ArticleText(msg.id)) > FallbackChars
    /\ msg.chain.content # <<>>
    /\ task[msg.t].pc = "send"

\* The newest article of each feed's listing.
NewestListed == {upstream[f][1] : f \in {g \in Feeds : upstream[g] # <<>>}}

\* C17: in a fresh deployment whose listing does not change, whatever feed
\* checks have run so far, one cycle at a time and with any of their fetches
\* failing, the only articles ever returned as new are the newest of each
\* feed; no feed check returns more than one article.
C17_NoFloodOnFirstDeployment ==
    /\ told \subseteq NewestListed
    /\ chk.ok => Len(chk.new) <= 1

\* The fetch of the first cycle failed and a later cycle has checked a feed
\* that lists two articles.
C17_Witness ==
    /\ calls = 2
    /\ chk.ok
    /\ Len(chk.page) = 2
    /\ chk.before = {}

\* The ids a check cycle's feed checks have returned as new.
Returned(c) == UNION {Range(c.nw[f]) : f \in Feeds}

NormalOnly(c) == c.phase # "none" /\ c.modes \subseteq {"normal"}

\* C18: two check cycles that overlap and ran their feed checks in normal
\* mode have returned no id in common, and no normal-mode feed check returns
\* an id that a feed check of this process returned before.
C18_NoDuplicateInNormalOverlap ==
    /\ [](\A pair \in {<<cyc["sched"], cyc["manual"]>>, <<cyc["sched"], fin>>,
                       <<cyc["manual"], fin>>} :
            (NormalOnly(pair[1]) /\ NormalOnly(pair[2])) =>
                Returned(pair[1]) \cap Returned(pair[2]) = {})
    /\ [][(chk'.ok /\ ~chk'.first) => Range(chk'.new) \cap told = {}]_vars

\* Both cycles are in progress, interleaved at their fetches, and each has
\* returned an article in normal mode.
C18_Witness ==
    /\ \A t \in Tasks : NormalOnly(cyc[t]) /\ Returned(cyc[t]) # {}
    /\ \E t \in Tasks : task[t].pc = "fetch"

\* The article a task is rendering or sending.
Current(t) == task[t].new[task[t].idx][1]

\* The first half of C19: whatever a cycle returned as new, and so whatever
\* it renders or sends, is in the in-memory Seen-Set.
C19_SeenBeforeDelivered ==
    /\ \A c \in Cycles : Returned(c) \subseteq seen_article_ids
    /\ \A t \in Tasks :
          task[t].pc \in {"render", "send"} =>
              Range(ArticleIds(task[t].new)) \subseteq seen_article_ids

\* C19: every article a cycle returned as new is in the in-memory Seen-Set
\* before it is rendered or sent, and no feed check returns as new an id
\* that a feed check of the same process returned before, whatever became
\* of its render and its sends.
C19_ReportedAtMostOnce ==
    /\ [](C19_SeenBeforeDelivered)
    /\ [][chk'.ok => Range(chk'.new) \cap told = {}]_vars

\* Two check cycles are delivering the same article.
C19_Witness ==
    /\ \A t \in Tasks : task[t].pc \in {"render", "send"}
    /\ Current("sched") = Current("manual")

\* The destinations a fan-out that is over owed a send: those registered when
\* it started that are registered still.
StillRegistered(t) == cyc[t].fstart \cap dict_values(registered_groups)

\* C20: when the fan-out of an article over the registry is over, a send of
\* that article was attempted to every destination that was registered when
\* the fan-out started and is registered still, whatever register and
\* unregister commands were handled while it was suspended in its sends.
C20_FanoutSurvivesRegistryChange ==
    [][\A t \in Tasks :
          (/\ task[t].pc = "send"
           /\ task[t].mode = "registry"
           /\ task'[t].pc # "send"
           /\ boot' = boot) =>
              \A d \in StillRegistered(t) :
                  \E k \in 1..Len(cyc[t].sent) :
                      cyc[t].sent[k] = [id |-> Current(t), dst |-> d]]_vars

\* What holds of the code: the same, for a fan-out during which no command
\* changed the registry.
C20_QuietFanoutReachesAll ==
    [][\A t \in Tasks :
          (/\ task[t].pc = "send"
           /\ task[t].mode = "registry"
           /\ task'[t].pc # "send"
           /\ cyc[t].quiet
           /\ boot' = boot) =>
              \A d \in StillRegistered(t) :
                  \E k \in 1..Len(cyc[t].sent) :
                      cyc[t].sent[k] = [id |-> Current(t), dst |-> d]]_vars

\* A fan-out over two registered destinations is suspended in its first send
\* and a command has changed the registry since the delivery began.
C20_Witness ==
    \E t \in Tasks :
        /\ task[t].pc = "send"
        /\ task[t].mode = "registry"
        /\ Cardinality(cyc[t].fstart) = 2
        /\ ~cyc[t].quiet
        /\ Cardinality({k \in 1..Len(cyc[t].sent) : cyc[t].sent[k].id = Current(t)}) = 1
        /\ \E d \in StillRegistered(t) :
              \A k \in 1..Len(cyc[t].sent) : cyc[t].sent[k].dst # d

\* C21: a register or unregister command from one address leaves every
\* other registered address a value of the registry, also when the caller's
\* derived key is the key another address is registered under; an address
\* stops being a value only by an unregister from that address.
C21_RegistrationLastsUntilOwnUnregister ==
    [][(cmd'.op # "none" /\ boot' = boot) =>
          \A a \in dict_values(registered_groups) :
              /\ a # cmd'.umo => a \in dict_values(registered_groups')
              /\ a \notin dict_values(registered_groups') =>
                    cmd'.op = "unregister" /\ cmd'.umo = a]_vars

\* What holds of the code: a command leaves registered every other address
\* whose entry is not under the key derived for the caller.
C21_LastsUnlessKeyShared ==
    [][(cmd'.op # "none" /\ boot' = boot) =>
          \A i \in LiveSlots(registered_groups) :
              LET e == registered_groups[i] IN
              (/\ e.v # cmd'.umo
               /\ \A ctx \in Contexts : ctx.umo = cmd'.umo => group_id_of(ctx) # e.k)
                  => e.v \in dict_values(registered_groups')]_vars

\* A group registered while another address was registered under the key
\* derived for it.
C21_Witness ==
    /\ cmd.op = "register"
    /\ \E i \in LiveSlots(cmd.d0), ctx \in Contexts :
          /\ ctx.umo = cmd.umo
          /\ cmd.d0[i].k = group_id_of(ctx)
          /\ cmd.d0[i].v # cmd.umo

====
